---- MODULE Spec2Model ----
(***************************************************************************)
(* Product query engine of the Social Blog API (src/main.py): the          *)
(* /products listing (list_products) and the /search endpoint (search)     *)
(* over the in-memory FAKE_PRODUCTS list.                                  *)
(*                                                                         *)
(* Representation                                                          *)
(*  - a Python str that is lowered, searched or ordered (name,             *)
(*    search_by_name, q) is the sequence of its code points;               *)
(*  - a Python str that is only tested for truth and compared with ==      *)
(*    (category, sort_by, sort_order, sort) is a TLA+ string;              *)
(*  - a price is a number of cents (899.99 is 89999): the order and the    *)
(*    equality of the float prices of the program are kept;                *)
(*  - an optional parameter is None (the empty set) or Some(v) = {v};      *)
(*  - the dict objects of FAKE_PRODUCTS live in heap, and a Python list    *)
(*    is the sequence of the references (heap addresses) it holds.         *)
(*  - requests are served by handlers (threads of the server's pool);      *)
(*    each handler takes one step of its endpoint function at a time.      *)
(***************************************************************************)
EXTENDS Integers, Sequences, FiniteSets

VARIABLES
    heap,           \* the dict objects: reference -> product record
    FAKE_PRODUCTS,  \* the module-level list: a sequence of references
    pc,             \* per handler: the statement it stands before
    params,         \* per handler: the validated query parameters
    filtered,       \* per handler: the local `filtered` of list_products
    results,        \* per handler: the local `results` of search
    resp            \* per handler: the response (or the raised HTTPException)

vars == <<heap, FAKE_PRODUCTS, pc, params, filtered, results, resp>>

(***************************************************************************)
(* Bounds of the model                                                     *)
(***************************************************************************)
MaxLimit == 2       \* limits 1..MaxLimit (and the largest accepted, 100)
MaxOffset == 1      \* offsets 0..MaxOffset (and 100, beyond every total)
MaxItems == 3       \* SpecSort: datasets of 0..MaxItems products

H1 == "h1"
H2 == "h2"
Handlers == {H1, H2}

(***************************************************************************)
(* Optional values                                                         *)
(***************************************************************************)
None == {}
Some(v) == {v}
Val(o) == CHOOSE v \in o : TRUE

Min(a, b) == IF a <= b THEN a ELSE b
Max(a, b) == IF a >= b THEN a ELSE b

(***************************************************************************)
(* The dataset, src/main.py:111-122                                        *)
(***************************************************************************)
SEED_HEAP ==
    <<  \* 1: "Laptop Dell"
        [id |-> 1, name |-> <<76, 97, 112, 116, 111, 112, 32, 68, 101, 108, 108>>,
         category |-> "electronics", price |-> 89999, in_stock |-> TRUE],
        \* 2: "Python Book"
        [id |-> 2, name |-> <<80, 121, 116, 104, 111, 110, 32, 66, 111, 111, 107>>,
         category |-> "books", price |-> 2999, in_stock |-> TRUE],
        \* 3: "T-Shirt"
        [id |-> 3, name |-> <<84, 45, 83, 104, 105, 114, 116>>,
         category |-> "clothing", price |-> 1999, in_stock |-> FALSE],
        \* 4: "iPhone 15"
        [id |-> 4, name |-> <<105, 80, 104, 111, 110, 101, 32, 49, 53>>,
         category |-> "electronics", price |-> 99999, in_stock |-> TRUE],
        \* 5: "FastAPI Guide"
        [id |-> 5, name |-> <<70, 97, 115, 116, 65, 80, 73, 32, 71, 117, 105, 100, 101>>,
         category |-> "books", price |-> 3999, in_stock |-> TRUE],
        \* 6: "Jeans"
        [id |-> 6, name |-> <<74, 101, 97, 110, 115>>,
         category |-> "clothing", price |-> 5999, in_stock |-> TRUE],
        \* 7: "MacBook Pro"
        [id |-> 7, name |-> <<77, 97, 99, 66, 111, 111, 107, 32, 80, 114, 111>>,
         category |-> "electronics", price |-> 199999, in_stock |-> TRUE],
        \* 8: "Django Book"
        [id |-> 8, name |-> <<68, 106, 97, 110, 103, 111, 32, 66, 111, 111, 107>>,
         category |-> "books", price |-> 3499, in_stock |-> FALSE],
        \* 9: "Jacket"
        [id |-> 9, name |-> <<74, 97, 99, 107, 101, 116>>,
         category |-> "clothing", price |-> 8999, in_stock |-> TRUE],
        \* 10: "Samsung Phone"
        [id |-> 10, name |-> <<83, 97, 109, 115, 117, 110, 103, 32, 80, 104, 111, 110, 101>>,
         category |-> "electronics", price |-> 79999, in_stock |-> TRUE]
    >>

\* the list literal: one reference per dict, in the order written
SEED_LIST == [i \in 1..Len(SEED_HEAP) |-> i]

(***************************************************************************)
(* Python built-ins the two endpoints use                                  *)
(***************************************************************************)
\* str.lower() on one code point (ASCII: 'A'..'Z' -> 'a'..'z')
LowerChar(c) == IF c >= 65 /\ c <= 90 THEN c + 32 ELSE c

\* mutant: the needle and the name are compared as they are written
LowerIdentity(s) == s

\* str.lower()
Lower(s) == [i \in 1..Len(s) |-> LowerChar(s[i])]

\* `a in b` for two str: a occurs in b as a contiguous substring
StrIn(a, b) ==
    \E k \in 0..(Len(b) - Len(a)) :
        \A i \in 1..Len(a) : b[k + i] = a[i]

\* `a < b` for two str: lexicographic by code point
StrLess(a, b) ==
    \E k \in 1..(Min(Len(a), Len(b)) + 1) :
        /\ \A i \in 1..(k - 1) : a[i] = b[i]
        /\ \/ k = Len(a) + 1 /\ k <= Len(b)
           \/ k <= Len(a) /\ k <= Len(b) /\ a[k] < b[k]

\* truth value of an optional str parameter: None and "" are false
Truthy(o) == o # None /\ Val(o) # ""

\* list.copy(): a new list holding the same references
Copy(l) == [i \in 1..Len(l) |-> l[i]]

Reverse(l) == [i \in 1..Len(l) |-> l[Len(l) + 1 - i]]

\* the `<` of two sort keys: float prices, or str names
KeyLess(a, b, field) ==
    IF field = "price" THEN a.price < b.price ELSE StrLess(a.name, b.name)

\* insertion of reference x behind every element that is not greater than it
RECURSIVE InsertStable(_, _, _, _)
InsertStable(x, l, field, h) ==
    IF l = << >> THEN <<x>>
    ELSE IF KeyLess(h[x], h[Head(l)], field) THEN <<x>> \o l
    ELSE <<Head(l)>> \o InsertStable(x, Tail(l), field, h)

\* the stable ascending sort underlying sorted()
RECURSIVE StableSort(_, _, _)
StableSort(l, field, h) ==
    IF l = << >> THEN << >>
    ELSE InsertStable(l[Len(l)], StableSort(SubSeq(l, 1, Len(l) - 1), field, h), field, h)

\* mutant: sorted(...)[::-1] in place of reverse=True
SortedThenReversed(l, field, reverse, h) ==
    IF reverse THEN Reverse(StableSort(l, field, h))
    ELSE StableSort(l, field, h)

\* sorted(l, key=lambda p: p[field], reverse=reverse): a new list; with
\* reverse the list is reversed, sorted and reversed back, which keeps
\* equal keys in their original order
Sorted(l, field, reverse, h) ==
    IF reverse THEN Reverse(StableSort(Reverse(l), field, h))
    ELSE StableSort(l, field, h)

\* mutant: the end index taken as inclusive
SliceInclusive(l, lo, hi) == SubSeq(l, Min(lo, Len(l)) + 1, Min(hi + 1, Len(l)))

\* l[lo:hi] for 0 <= lo <= hi: the indices are clamped to len(l)
Slice(l, lo, hi) == SubSeq(l, Min(lo, Len(l)) + 1, Min(hi, Len(l)))

\* Product(**p), src/main.py:125-130
Product(p) ==
    [id |-> p.id, name |-> p.name, category |-> p.category,
     price |-> p.price, in_stock |-> p.in_stock]

\* SearchResult(**p), src/main.py:213-217: in_stock is not a field
SearchResult(p) ==
    [id |-> p.id, name |-> p.name, category |-> p.category, price |-> p.price]

(***************************************************************************)
(* Query parameters that pass the Query(...) validation                    *)
(***************************************************************************)
S_book == <<98, 111, 111, 107>>     \* "book"
S_BOOK == <<66, 79, 79, 75>>        \* "BOOK"
S_Book == <<66, 111, 111, 107>>     \* "Book"
S_ph   == <<112, 104>>              \* "ph"
S_zz   == <<122, 122>>              \* "zz"

Categories == {None, Some(""), Some("books"), Some("electronics")}
PriceBounds == {None, Some(0), Some(3999)}
Limits == (1..MaxLimit) \cup {100}
Offsets == (0..MaxOffset) \cup {100}
Sorts == {<<None, Some("asc")>>, <<Some("price"), Some("asc")>>,
          <<Some("price"), Some("desc")>>, <<Some("name"), Some("asc")>>,
          <<Some("name"), Some("desc")>>}

ListParam(c, lo, hi, s, st, so, l, o) ==
    [category |-> c, min_price |-> lo, max_price |-> hi, search_by_name |-> s,
     in_stock |-> st, sort_by |-> so[1], sort_order |-> so[2],
     limit |-> l, offset |-> o]

\* the listing requests of Spec
ListParams ==
    { ListParam(c, lo, hi, s, st, so, l, o) :
        c \in Categories, lo \in PriceBounds, hi \in PriceBounds,
        s \in {None, Some(S_book), Some(S_ph)},
        st \in {None, Some(TRUE), Some(FALSE)},
        so \in Sorts, l \in Limits, o \in Offsets }

(***************************************************************************)
(* list_products, src/main.py:141-208                                      *)
(***************************************************************************)
\* mutant: >= in place of >
InvalidRangeOrEqual(lo, hi) == lo # None /\ hi # None /\ Val(lo) >= Val(hi)

\* src/main.py:157-158
InvalidRange(lo, hi) == lo # None /\ hi # None /\ Val(lo) > Val(hi)

NoResp == [status |-> 0]

\* lines 157-166: the range check, then filtered = FAKE_PRODUCTS.copy()
ListBegin(h, P) ==
    /\ pc[h] = "idle"
    /\ \E p \in P :
        /\ params' = [params EXCEPT ![h] = p]
        /\ IF InvalidRange(p.min_price, p.max_price)
           THEN /\ resp' = [resp EXCEPT ![h] =
                        [status |-> 400,
                         detail |-> "min_price must be less than max_price"]]
                /\ pc' = [pc EXCEPT ![h] = "returned"]
                /\ UNCHANGED filtered
           ELSE /\ filtered' = [filtered EXCEPT ![h] = Copy(FAKE_PRODUCTS)]
                /\ pc' = [pc EXCEPT ![h] = "category"]
                /\ UNCHANGED resp
    /\ UNCHANGED <<heap, FAKE_PRODUCTS, results>>

\* a list comprehension [p for p in l if Keep(p)] is SelectSeq(l, Keep): a new
\* list of the references that pass, in the order of l

\* lines 168-169
ListCategory(h) ==
    LET Keep(r) == heap[r].category = Val(params[h].category)
    IN /\ pc[h] = "category"
       /\ filtered' = [filtered EXCEPT ![h] =
               IF Truthy(params[h].category)
               THEN SelectSeq(filtered[h], Keep) ELSE filtered[h]]
       /\ pc' = [pc EXCEPT ![h] = "min_price"]
       /\ UNCHANGED <<heap, FAKE_PRODUCTS, params, results, resp>>

\* lines 171-172
ListMinPrice(h) ==
    LET Keep(r) == heap[r].price >= Val(params[h].min_price)
    IN /\ pc[h] = "min_price"
       /\ filtered' = [filtered EXCEPT ![h] =
               IF params[h].min_price # None
               THEN SelectSeq(filtered[h], Keep) ELSE filtered[h]]
       /\ pc' = [pc EXCEPT ![h] = "max_price"]
       /\ UNCHANGED <<heap, FAKE_PRODUCTS, params, results, resp>>

\* lines 174-175
ListMaxPrice(h) ==
    LET Keep(r) == heap[r].price <= Val(params[h].max_price)
    IN /\ pc[h] = "max_price"
       /\ filtered' = [filtered EXCEPT ![h] =
               IF params[h].max_price # None
               THEN SelectSeq(filtered[h], Keep) ELSE filtered[h]]
       /\ pc' = [pc EXCEPT ![h] = "search_by_name"]
       /\ UNCHANGED <<heap, FAKE_PRODUCTS, params, results, resp>>

\* lines 177-178 (search_by_name has min_length 2: given means non-empty)
ListSearchByName(h) ==
    LET Keep(r) == StrIn(Lower(Val(params[h].search_by_name)), Lower(heap[r].name))
    IN /\ pc[h] = "search_by_name"
       /\ filtered' = [filtered EXCEPT ![h] =
               IF params[h].search_by_name # None
               THEN SelectSeq(filtered[h], Keep) ELSE filtered[h]]
       /\ pc' = [pc EXCEPT ![h] = "in_stock"]
       /\ UNCHANGED <<heap, FAKE_PRODUCTS, params, results, resp>>

\* lines 180-181
ListInStock(h) ==
    LET Keep(r) == heap[r].in_stock = Val(params[h].in_stock)
    IN /\ pc[h] = "in_stock"
       /\ filtered' = [filtered EXCEPT ![h] =
               IF params[h].in_stock # None
               THEN SelectSeq(filtered[h], Keep) ELSE filtered[h]]
       /\ pc' = [pc EXCEPT ![h] = "sort"]
       /\ UNCHANGED <<heap, FAKE_PRODUCTS, params, results, resp>>

\* mutant: FAKE_PRODUCTS.sort(...) run on the module-level list as well
ListSortInPlace(h) ==
    /\ pc[h] = "sort"
    /\ filtered' = [filtered EXCEPT ![h] =
            IF params[h].sort_by # None
            THEN Sorted(filtered[h], Val(params[h].sort_by),
                        params[h].sort_order = Some("desc"), heap)
            ELSE filtered[h]]
    /\ FAKE_PRODUCTS' =
            IF params[h].sort_by # None
            THEN Sorted(FAKE_PRODUCTS, Val(params[h].sort_by),
                        params[h].sort_order = Some("desc"), heap)
            ELSE FAKE_PRODUCTS
    /\ pc' = [pc EXCEPT ![h] = "paginate"]
    /\ UNCHANGED <<heap, params, results, resp>>

\* lines 183-185
ListSort(h) ==
    /\ pc[h] = "sort"
    /\ filtered' = [filtered EXCEPT ![h] =
            IF params[h].sort_by # None
            THEN Sorted(filtered[h], Val(params[h].sort_by),
                        params[h].sort_order = Some("desc"), heap)
            ELSE filtered[h]]
    /\ pc' = [pc EXCEPT ![h] = "paginate"]
    /\ UNCHANGED <<heap, FAKE_PRODUCTS, params, results, resp>>

\* lines 188-208: total, the page, the Product models and the response
ListPaginate(h) ==
    /\ pc[h] = "paginate"
    /\ LET total == Len(filtered[h])
           paginated == Slice(filtered[h], params[h].offset,
                              params[h].offset + params[h].limit)
           products == [i \in 1..Len(paginated) |-> Product(heap[paginated[i]])]
       IN resp' = [resp EXCEPT ![h] =
                [status |-> 200, total |-> total, products |-> products,
                 filters_applied |-> params[h]]]
    /\ pc' = [pc EXCEPT ![h] = "returned"]
    /\ UNCHANGED <<heap, FAKE_PRODUCTS, params, filtered, results>>

\* the response is sent and the handler's frame is gone
Finish(h) ==
    /\ pc[h] \in {"returned", "s_returned"}
    /\ pc' = [pc EXCEPT ![h] = "idle"]
    /\ params' = [params EXCEPT ![h] = None]
    /\ filtered' = [filtered EXCEPT ![h] = << >>]
    /\ results' = [results EXCEPT ![h] = << >>]
    /\ resp' = [resp EXCEPT ![h] = NoResp]
    /\ UNCHANGED <<heap, FAKE_PRODUCTS>>

(***************************************************************************)
(* search, src/main.py:226-257                                             *)
(***************************************************************************)
SearchParams ==
    { [q |-> q, category |-> c, sort |-> so] :
        q \in {S_book, S_BOOK, S_Book, S_ph, S_zz}, c \in Categories,
        so \in {Some("relevance"), Some("price_asc"), Some("price_desc"),
                Some("name")} }

\* line 233: results = FAKE_PRODUCTS.copy()
SearchBegin(h, P) ==
    /\ pc[h] = "idle"
    /\ \E p \in P : params' = [params EXCEPT ![h] = p]
    /\ results' = [results EXCEPT ![h] = Copy(FAKE_PRODUCTS)]
    /\ pc' = [pc EXCEPT ![h] = "s_category"]
    /\ UNCHANGED <<heap, FAKE_PRODUCTS, filtered, resp>>

\* lines 235-236
SearchCategory(h) ==
    LET Keep(r) == heap[r].category = Val(params[h].category)
    IN /\ pc[h] = "s_category"
       /\ results' = [results EXCEPT ![h] =
               IF Truthy(params[h].category)
               THEN SelectSeq(results[h], Keep) ELSE results[h]]
       /\ pc' = [pc EXCEPT ![h] = "s_match"]
       /\ UNCHANGED <<heap, FAKE_PRODUCTS, params, filtered, resp>>

\* mutant: `results` is a module-level name that every handler assigns
SearchMatchShared(h) ==
    LET Keep(r) == StrIn(Lower(params[h].q), Lower(heap[r].name))
    IN /\ pc[h] = "s_match"
       /\ results' = [g \in Handlers |-> SelectSeq(results[h], Keep)]
       /\ pc' = [pc EXCEPT ![h] = "s_sort"]
       /\ UNCHANGED <<heap, FAKE_PRODUCTS, params, filtered, resp>>

\* line 238
SearchMatch(h) ==
    LET Keep(r) == StrIn(Lower(params[h].q), Lower(heap[r].name))
    IN /\ pc[h] = "s_match"
       /\ results' = [results EXCEPT ![h] = SelectSeq(results[h], Keep)]
       /\ pc' = [pc EXCEPT ![h] = "s_sort"]
       /\ UNCHANGED <<heap, FAKE_PRODUCTS, params, filtered, resp>>

\* mutant: reverse=True forgotten for price_desc
SearchSortedNoReverse(l, sort, h) ==
    IF sort = Some("price_asc") THEN Sorted(l, "price", FALSE, h)
    ELSE IF sort = Some("price_desc") THEN Sorted(l, "price", FALSE, h)
    ELSE IF sort = Some("name") THEN Sorted(l, "name", FALSE, h)
    ELSE l

\* mutant: the name sort as the fall-through, so relevance sorts by name
SearchSortedElseName(l, sort, h) ==
    IF sort = Some("price_asc") THEN Sorted(l, "price", FALSE, h)
    ELSE IF sort = Some("price_desc") THEN Sorted(l, "price", TRUE, h)
    ELSE Sorted(l, "name", FALSE, h)

\* lines 241-246: the sort, by the value of `sort`
SearchSorted(l, sort, h) ==
    IF sort = Some("price_asc") THEN Sorted(l, "price", FALSE, h)
    ELSE IF sort = Some("price_desc") THEN Sorted(l, "price", TRUE, h)
    ELSE IF sort = Some("name") THEN Sorted(l, "name", FALSE, h)
    ELSE l

\* lines 241-246
SearchSort(h) ==
    /\ pc[h] = "s_sort"
    /\ results' = [results EXCEPT ![h] = SearchSorted(results[h], params[h].sort, heap)]
    /\ pc' = [pc EXCEPT ![h] = "s_return"]
    /\ UNCHANGED <<heap, FAKE_PRODUCTS, params, filtered, resp>>

\* lines 248-257: results_count, the SearchResult models and the response
SearchReturn(h) ==
    /\ pc[h] = "s_return"
    /\ LET results_count == Len(results[h])
           search_results ==
               [i \in 1..Len(results[h]) |-> SearchResult(heap[results[h][i]])]
       IN resp' = [resp EXCEPT ![h] =
                [status |-> 200, query |-> params[h].q,
                 results_count |-> results_count, results |-> search_results]]
    /\ pc' = [pc EXCEPT ![h] = "s_returned"]
    /\ UNCHANGED <<heap, FAKE_PRODUCTS, params, filtered, results>>

(***************************************************************************)
(* Specifications                                                          *)
(***************************************************************************)
Idle ==
    /\ pc = [h \in Handlers |-> "idle"]
    /\ params = [h \in Handlers |-> None]
    /\ filtered = [h \in Handlers |-> << >>]
    /\ results = [h \in Handlers |-> << >>]
    /\ resp = [h \in Handlers |-> NoResp]

Init ==
    /\ heap = SEED_HEAP
    /\ FAKE_PRODUCTS = SEED_LIST
    /\ Idle

\* Spec: requests of the wide parameter space, served one after the other
Next ==
    \/ ListBegin(H1, ListParams)
    \/ ListCategory(H1)
    \/ ListMinPrice(H1)
    \/ ListMaxPrice(H1)
    \/ ListSearchByName(H1)
    \/ ListInStock(H1)
    \/ ListSort(H1)
    \/ ListPaginate(H1)
    \/ SearchBegin(H1, SearchParams)
    \/ SearchCategory(H1)
    \/ SearchMatch(H1)
    \/ SearchSort(H1)
    \/ SearchReturn(H1)
    \/ Finish(H1)

Spec == Init /\ [][Next]_vars

\* SpecConc: two handlers of the pool serve requests in parallel, their
\* statements interleaved in every order
ListParamsConc ==
    { ListParam(c, None, hi, s, None, so, 2, 1) :
        c \in {None, Some("books")}, hi \in {None, Some(3999)},
        s \in {None, Some(S_book), Some(S_Book)},
        so \in {<<None, Some("asc")>>, <<Some("price"), Some("desc")>>} }

SearchParamsConc ==
    { [q |-> q, category |-> c, sort |-> so] :
        q \in {S_book, S_Book, S_ph}, c \in {None, Some("electronics")},
        so \in {Some("relevance"), Some("price_asc"), Some("price_desc"),
                Some("name")} }

NextConc ==
    \E h \in Handlers :
        \/ ListBegin(h, ListParamsConc)
        \/ ListCategory(h)
        \/ ListMinPrice(h)
        \/ ListMaxPrice(h)
        \/ ListSearchByName(h)
        \/ ListInStock(h)
        \/ ListSort(h)
        \/ ListPaginate(h)
        \/ SearchBegin(h, SearchParamsConc)
        \/ SearchCategory(h)
        \/ SearchMatch(h)
        \/ SearchSort(h)
        \/ SearchReturn(h)
        \/ Finish(h)

SpecConc == Init /\ [][NextConc]_vars

\* SpecSort: the listing sort over every dataset of up to MaxItems products
\* whose prices and names repeat, requested by two handlers
SortKinds ==
    { [name |-> n, price |-> p] : n \in {<<66>>, <<97>>}, p \in {1999, 2999} }

ListParamsSort ==
    { ListParam(None, None, None, None, None, so, 100, 0) :
        so \in Sorts \ {<<None, Some("asc")>>} }

InitSort ==
    /\ \E n \in 0..MaxItems :
         \E f \in [1..n -> SortKinds] :
            heap = [i \in 1..n |->
                      [id |-> i, name |-> f[i].name, category |-> "books",
                       price |-> f[i].price, in_stock |-> TRUE]]
    /\ FAKE_PRODUCTS = [i \in 1..Len(heap) |-> i]
    /\ Idle

NextSort ==
    \E h \in Handlers :
        \/ ListBegin(h, ListParamsSort)
        \/ ListCategory(h)
        \/ ListMinPrice(h)
        \/ ListMaxPrice(h)
        \/ ListSearchByName(h)
        \/ ListInStock(h)
        \/ ListSort(h)
        \/ ListPaginate(h)
        \/ Finish(h)

SpecSort == InitSort /\ [][NextSort]_vars

(***************************************************************************)
(* Vocabulary of the properties                                            *)
(***************************************************************************)
ListReturned(h) == pc[h] = "returned"
ListOK(h) == pc[h] = "returned" /\ resp[h].status = 200
SearchReturned(h) == pc[h] = "s_returned"

\* two code points that are the same letter up to case
SameLetter(a, b) ==
    \/ a = b
    \/ a \in 65..90 /\ b = a + 32
    \/ b \in 65..90 /\ a = b + 32

\* two strings that differ at most in letter case
DifferOnlyInCase(a, b) ==
    Len(a) = Len(b) /\ \A i \in 1..Len(a) : SameLetter(a[i], b[i])

\* s occurs in name, letter case ignored
ContainsIgnoreCase(name, s) ==
    \E k \in 0..(Len(name) - Len(s)) :
        \A i \in 1..Len(s) : SameLetter(name[k + i], s[i])

\* product p passes the predicate of every filter parameter that is present
Satisfies(p, prm) ==
    /\ prm.category # None => p.category = Val(prm.category)
    /\ prm.min_price # None => p.price >= Val(prm.min_price)
    /\ prm.max_price # None => p.price <= Val(prm.max_price)
    /\ prm.search_by_name # None =>
            ContainsIgnoreCase(p.name, Val(prm.search_by_name))
    /\ prm.in_stock # None => p.in_stock = Val(prm.in_stock)

\* the place of the product with this id in the dataset
DataPos(id) == CHOOSE i \in 1..Len(FAKE_PRODUCTS) : heap[FAKE_PRODUCTS[i]].id = id

\* the place of the product with this id in a list of product models
PosIn(l, id) == CHOOSE i \in 1..Len(l) : l[i].id = id

Count(l, x) == Cardinality({i \in 1..Len(l) : l[i] = x})

IsPermutation(a, b) ==
    Len(a) = Len(b) /\ \A i \in 1..Len(a) : Count(a, a[i]) = Count(b, a[i])

(***************************************************************************)
(* C1: the total of a listing is the number of dataset items that pass     *)
(* the predicate of every filter parameter present in the request (so it   *)
(* does not depend on limit and offset).                                   *)
(***************************************************************************)
C1_TotalCountsFiltered ==
    \A h \in Handlers :
        ListOK(h) =>
            resp[h].total =
                Cardinality({i \in 1..Len(FAKE_PRODUCTS) :
                                Satisfies(heap[FAKE_PRODUCTS[i]], params[h])})

(***************************************************************************)
(* C2: the products of a listing are the slice [offset, offset+limit) of   *)
(* the filtered and sorted sequence: min(limit, max(0, total - offset))    *)
(* of them, none when offset >= total, and total is the length of the      *)
(* whole sequence whatever the offset.                                     *)
(***************************************************************************)
C2_Pagination ==
    \A h \in Handlers :
        ListOK(h) =>
            LET r == resp[h]
                p == params[h]
                f == filtered[h]
            IN /\ r.total = Len(f)
               /\ Len(r.products) = Min(p.limit, Max(0, r.total - p.offset))
               /\ \A i \in 1..Len(r.products) :
                      r.products[i] = heap[f[p.offset + i]]
               /\ p.offset >= r.total => r.products = << >>

C2_Witness ==
    \E h \in Handlers :
        /\ ListOK(h)
        /\ resp[h].total > 0
        /\ params[h].offset >= resp[h].total
        /\ resp[h].products = << >>

(***************************************************************************)
(* C3: a listing fails with 400 "min_price must be less than max_price"    *)
(* exactly when both bounds are given and min_price > max_price; the       *)
(* failure carries no total and no products, nothing was filtered before   *)
(* it, and no request with such a range reaches a filtering statement.     *)
(***************************************************************************)
C3_InvalidRange ==
    \A h \in Handlers :
        LET p == params[h]
            r == resp[h]
            bad == /\ p.min_price # None
                   /\ p.max_price # None
                   /\ Val(p.min_price) > Val(p.max_price)
        IN /\ ListReturned(h) =>
                /\ r.status = 400 <=> bad
                /\ bad => /\ r = [status |-> 400,
                                  detail |-> "min_price must be less than max_price"]
                          /\ filtered[h] = << >>
                /\ ~bad => r.status = 200 /\ "total" \in DOMAIN r
           /\ pc[h] \in {"category", "min_price", "max_price", "search_by_name",
                         "in_stock", "sort", "paginate"} => ~bad

C3_Witness ==
    \E h \in Handlers :
        /\ ListReturned(h)
        /\ resp[h].status = 400
        /\ params[h].min_price = Some(3999)
        /\ params[h].max_price = Some(0)

(***************************************************************************)
(* C4: every filter whose parameter is present is applied: each product    *)
(* counted in total and each product returned passes the predicate of      *)
(* every parameter that was supplied, falsy values included.               *)
(***************************************************************************)
C4_PresentFiltersApplied ==
    \A h \in Handlers :
        ListOK(h) =>
            /\ \A i \in 1..Len(filtered[h]) :
                   Satisfies(heap[filtered[h][i]], params[h])
            /\ \A i \in 1..Len(resp[h].products) :
                   Satisfies(resp[h].products[i], params[h])

(***************************************************************************)
(* C5: the listing sort is stable in both directions: of two listings of   *)
(* the same set by the same field, one asc and one desc, two products      *)
(* with distinct keys come in opposite orders, and two products with       *)
(* equal keys come in their dataset order in both.                         *)
(***************************************************************************)
C5_StableBothWays ==
    \A h1, h2 \in Handlers :
        ( /\ ListOK(h1) /\ ListOK(h2)
          /\ params[h1].sort_by # None
          /\ params[h1].sort_by = params[h2].sort_by
          /\ params[h1].sort_order = Some("asc")
          /\ params[h2].sort_order = Some("desc") ) =>
            LET A == resp[h1].products
                D == resp[h2].products
                Key(x) == IF params[h1].sort_by = Some("price")
                          THEN x.price ELSE x.name
            IN /\ Len(A) = Len(FAKE_PRODUCTS)
               /\ IsPermutation(A, D)
               /\ \A i, j \in 1..Len(A) :
                      i < j =>
                        IF Key(A[i]) = Key(A[j])
                        THEN /\ DataPos(A[i].id) < DataPos(A[j].id)
                             /\ PosIn(D, A[i].id) < PosIn(D, A[j].id)
                        ELSE PosIn(D, A[j].id) < PosIn(D, A[i].id)

C5_Witness ==
    /\ ListOK(H1) /\ ListOK(H2)
    /\ params[H1].sort_by = Some("price") /\ params[H2].sort_by = Some("price")
    /\ params[H1].sort_order = Some("asc") /\ params[H2].sort_order = Some("desc")
    /\ Len(heap) = 3
    /\ heap[1].price = 2999 /\ heap[2].price = 1999 /\ heap[3].price = 2999
    /\ resp[H1].products = <<heap[2], heap[1], heap[3]>>
    /\ resp[H2].products = <<heap[1], heap[3], heap[2]>>

(***************************************************************************)
(* C6: on the 10-item dataset, search q="book", sort=price_desc, no        *)
(* category.                                                               *)
(***************************************************************************)
C6_Request(h) ==
    /\ SearchReturned(h)
    /\ params[h] = [q |-> S_book, category |-> None, sort |-> Some("price_desc")]

\* C6 as stated: 2 results, FastAPI Guide (39.99) then Python Book (29.99)
C6_AsStated ==
    \A h \in Handlers :
        C6_Request(h) =>
            /\ resp[h].results_count = 2
            /\ [i \in 1..Len(resp[h].results) |-> resp[h].results[i].id] = <<5, 2>>

\* C6 amended: 3 results, MacBook Pro (1999.99), Django Book (34.99),
\* Python Book (29.99), in that order
C6_BookPriceDesc ==
    \A h \in Handlers :
        C6_Request(h) =>
            /\ resp[h].results_count = 3
            /\ resp[h].results =
                <<[id |-> 7, name |-> SEED_HEAP[7].name,
                   category |-> "electronics", price |-> 199999],
                  [id |-> 8, name |-> SEED_HEAP[8].name,
                   category |-> "books", price |-> 3499],
                  [id |-> 2, name |-> SEED_HEAP[2].name,
                   category |-> "books", price |-> 2999]>>

C6_Witness == C6_Request(H1)

(***************************************************************************)
(* C7: name matching ignores letter case: two listings that differ only    *)
(* in the case of search_by_name, and two searches that differ only in     *)
(* the case of q, return the same count and the same sequence.             *)
(***************************************************************************)
C7_CaseInsensitive ==
    \A h1, h2 \in Handlers :
        /\ ( /\ ListOK(h1) /\ ListOK(h2)
             /\ params[h1].search_by_name # None
             /\ params[h2].search_by_name # None
             /\ DifferOnlyInCase(Val(params[h1].search_by_name),
                                 Val(params[h2].search_by_name))
             /\ [params[h1] EXCEPT !.search_by_name = None]
                    = [params[h2] EXCEPT !.search_by_name = None] ) =>
                /\ resp[h1].total = resp[h2].total
                /\ resp[h1].products = resp[h2].products
        /\ ( /\ SearchReturned(h1) /\ SearchReturned(h2)
             /\ DifferOnlyInCase(params[h1].q, params[h2].q)
             /\ params[h1].category = params[h2].category
             /\ params[h1].sort = params[h2].sort ) =>
                /\ resp[h1].results_count = resp[h2].results_count
                /\ resp[h1].results = resp[h2].results

C7_Witness ==
    /\ ListOK(H1) /\ ListOK(H2)
    /\ params[H1].search_by_name = Some(S_book)
    /\ params[H2].search_by_name = Some(S_Book)
    /\ [params[H1] EXCEPT !.search_by_name = None]
           = [params[H2] EXCEPT !.search_by_name = None]
    /\ resp[H1].total = 3
    /\ Len(resp[H1].products) = 2

(***************************************************************************)
(* C8: the dataset is never mutated: in every state the list holds the     *)
(* same items, with the same field values, in the same order as at         *)
(* initialization.                                                         *)
(***************************************************************************)
C8_DatasetNeverMutated ==
    /\ heap = SEED_HEAP
    /\ FAKE_PRODUCTS = SEED_LIST

C8_Witness ==
    \E h \in Handlers :
        /\ ListOK(h)
        /\ params[h].sort_by = Some("price")
        /\ resp[h].total = Len(SEED_LIST)
        /\ filtered[h] # FAKE_PRODUCTS
        /\ FAKE_PRODUCTS = SEED_LIST

(***************************************************************************)
(* C9: under every interleaving of the statements of parallel requests,    *)
(* each request returns the response it returns when it runs alone on      *)
(* the initial dataset.                                                    *)
(***************************************************************************)
\* list_products run from its first to its last statement on the seed
ListAlone(p) ==
    IF p.min_price # None /\ p.max_price # None /\ Val(p.min_price) > Val(p.max_price)
    THEN [status |-> 400, detail |-> "min_price must be less than max_price"]
    ELSE
    LET P(r) == SEED_HEAP[r]
        K1(r) == P(r).category = Val(p.category)
        K2(r) == P(r).price >= Val(p.min_price)
        K3(r) == P(r).price <= Val(p.max_price)
        K4(r) == ContainsIgnoreCase(P(r).name, Val(p.search_by_name))
        K5(r) == P(r).in_stock = Val(p.in_stock)
        f1 == IF p.category \notin {None, Some("")}
              THEN SelectSeq(SEED_LIST, K1) ELSE SEED_LIST
        f2 == IF p.min_price # None THEN SelectSeq(f1, K2) ELSE f1
        f3 == IF p.max_price # None THEN SelectSeq(f2, K3) ELSE f2
        f4 == IF p.search_by_name # None THEN SelectSeq(f3, K4) ELSE f3
        f5 == IF p.in_stock # None THEN SelectSeq(f4, K5) ELSE f4
        f6 == IF p.sort_by # None
              THEN Sorted(f5, Val(p.sort_by), p.sort_order = Some("desc"), SEED_HEAP)
              ELSE f5
        page == SubSeq(f6, Min(p.offset, Len(f6)) + 1,
                       Min(p.offset + p.limit, Len(f6)))
    IN [status |-> 200, total |-> Len(f6),
        products |-> [i \in 1..Len(page) |-> P(page[i])],
        filters_applied |-> p]

\* search run from its first to its last statement on the seed
SearchAlone(p) ==
    LET P(r) == SEED_HEAP[r]
        K1(r) == P(r).category = Val(p.category)
        K2(r) == ContainsIgnoreCase(P(r).name, p.q)
        r1 == IF p.category \notin {None, Some("")}
              THEN SelectSeq(SEED_LIST, K1) ELSE SEED_LIST
        r2 == SelectSeq(r1, K2)
        r3 == IF p.sort = Some("price_asc") THEN Sorted(r2, "price", FALSE, SEED_HEAP)
              ELSE IF p.sort = Some("price_desc") THEN Sorted(r2, "price", TRUE, SEED_HEAP)
              ELSE IF p.sort = Some("name") THEN Sorted(r2, "name", FALSE, SEED_HEAP)
              ELSE r2
    IN [status |-> 200, query |-> p.q, results_count |-> Len(r3),
        results |-> [i \in 1..Len(r3) |->
                        [id |-> P(r3[i]).id, name |-> P(r3[i]).name,
                         category |-> P(r3[i]).category, price |-> P(r3[i]).price]]]

\* C9: every returned response equals the response of the same request run alone
C9_ParallelAsAlone ==
    \A h \in Handlers :
        /\ ListReturned(h) => resp[h] = ListAlone(params[h])
        /\ SearchReturned(h) => resp[h] = SearchAlone(params[h])

C9_Witness ==
    /\ ListOK(H1) /\ resp[H1].total > 0 /\ params[H1].sort_by # None
    /\ SearchReturned(H2) /\ resp[H2].results_count > 1
    /\ params[H2].sort = Some("price_asc")

(***************************************************************************)
(* C10: in search, sorting only reorders: results_count is the length of   *)
(* results, two searches with the same q and category return               *)
(* permutations of one another whatever their sort, and under relevance    *)
(* the results are the items that match, in dataset order.                 *)
(***************************************************************************)
C10_SortOnlyReorders ==
    \A h1, h2 \in Handlers :
        SearchReturned(h1) =>
            LET R == resp[h1].results
            IN /\ resp[h1].results_count = Len(R)
               /\ \A i \in 1..Len(R) : ContainsIgnoreCase(R[i].name, params[h1].q)
               /\ params[h1].category = None =>
                    \A k \in 1..Len(FAKE_PRODUCTS) :
                        ContainsIgnoreCase(heap[FAKE_PRODUCTS[k]].name, params[h1].q)
                            => \E i \in 1..Len(R) : R[i].id = heap[FAKE_PRODUCTS[k]].id
               /\ params[h1].sort = Some("relevance") =>
                    \A i, j \in 1..Len(R) :
                        i < j => DataPos(R[i].id) < DataPos(R[j].id)
               /\ ( /\ SearchReturned(h2)
                    /\ params[h2].q = params[h1].q
                    /\ params[h2].category = params[h1].category ) =>
                        /\ resp[h2].results_count = resp[h1].results_count
                        /\ IsPermutation(resp[h2].results, R)

C10_Witness ==
    /\ SearchReturned(H1) /\ SearchReturned(H2)
    /\ params[H1].q = S_book /\ params[H2].q = S_book
    /\ params[H1].category = None /\ params[H2].category = None
    /\ params[H1].sort = Some("relevance") /\ params[H2].sort = Some("name")
    /\ resp[H1].results # resp[H2].results
    /\ resp[H1].results_count = 3

====
